---------------------------- MODULE Spec2Model ----------------------------
(***************************************************************************)
(* A model of pywgs84 (src/pywgs84.py): conversions between geodetic LLH,  *)
(* ECEF and the local tangent frames ENU, NED and ESD.                     *)
(*                                                                         *)
(* The program computes with Python floats (IEEE-754 binary64) through the *)
(* math module and numpy.  The model keeps the structure of that           *)
(* arithmetic and shortens the significand: a float is                     *)
(*     [k |-> "fin", m |-> significand, e |-> exponent]   (m * 2^e, m # 0) *)
(*     [k |-> "zero", m |-> +1 or -1]                     (+0.0 and -0.0)  *)
(*     [k |-> "inf", m |-> +1 or -1], [k |-> "nan"],                       *)
(* every operation rounds its exact result to Prec significant bits        *)
(* (round to nearest, ties to even), overflows to an infinity above        *)
(* 2^EMax and flushes to zero below 2^EMin.  A Python exception raised by  *)
(* an operation is the value [k |-> "exc", m |-> code], which every later  *)
(* operation passes on, so that a conversion that raises returns it.       *)
(***************************************************************************)
EXTENDS Integers, Sequences, FiniteSets, TLC

\* Significand bits of the model's floats (binary64 has 53).
Prec == 12
\* Largest and smallest binary exponent of a finite value (binary64: 1024, -1074).
EMax == 1024
EMin == 1074

RECURSIVE Pow2(_)
Pow2(n) == IF n <= 0 THEN 1 ELSE 2 * Pow2(n - 1)

Abs(n) == IF n < 0 THEN -n ELSE n
Sgn(n) == IF n < 0 THEN -1 ELSE IF n > 0 THEN 1 ELSE 0

RECURSIVE BitLen(_)
BitLen(n) == IF n = 0 THEN 0 ELSE 1 + BitLen(n \div 2)

\* floor(sqrt(n)) for n >= 0, by bisection on [lo, hi).
RECURSIVE ISqrtIn(_, _, _)
ISqrtIn(n, lo, hi) ==
  IF hi - lo <= 1 THEN lo
  ELSE LET mid == (lo + hi) \div 2
       IN IF mid * mid <= n THEN ISqrtIn(n, mid, hi) ELSE ISqrtIn(n, lo, mid)
ISqrt(n) == ISqrtIn(n, 0, 46341)

(***************************************************************************)
(* Float values.                                                           *)
(***************************************************************************)
Flt == [k : {"fin", "zero", "inf", "nan", "exc"}, m : Int, e : Int]

NaN == [k |-> "nan", m |-> 0, e |-> 0]
PInf == [k |-> "inf", m |-> 1, e |-> 0]
NInf == [k |-> "inf", m |-> -1, e |-> 0]
Zero == [k |-> "zero", m |-> 1, e |-> 0]
NegZero == [k |-> "zero", m |-> -1, e |-> 0]
Inf(s) == IF s < 0 THEN NInf ELSE PInf
ZeroS(s) == IF s < 0 THEN NegZero ELSE Zero

\* Exceptions of the Python runtime, by code.
ValueError == [k |-> "exc", m |-> 1, e |-> 0]
ZeroDivisionError == [k |-> "exc", m |-> 2, e |-> 0]
OverflowError == [k |-> "exc", m |-> 3, e |-> 0]

IsExc(a) == a.k = "exc"
IsNaN(a) == a.k = "nan"
IsInf(a) == a.k = "inf"
IsZero(a) == a.k = "zero"
IsFin(a) == a.k = "fin" \/ a.k = "zero"

\* A finite value s * q * 2^e with q < 2^Prec, an infinity when it is too
\* large and zero when it is too small.
Pack[s \in Int, q \in Int, e \in Int] ==
  IF e + Prec < -EMin THEN ZeroS(s)
  ELSE IF e + Prec > EMax THEN Inf(s)
  ELSE [k |-> "fin", m |-> s * q, e |-> e]

\* A rounded significand that reached 2^Prec is renormalised.
Carry[s \in Int, q \in Int, e \in Int] ==
  IF q = Pow2(Prec) THEN Pack[s, Pow2(Prec - 1), e + 1] ELSE Pack[s, q, e]

\* Round to nearest, ties to even: q with the remainder r out of 2 * half.
Nearest[q \in Int, r \in Int, half \in Int, sticky \in BOOLEAN] ==
  IF r > half \/ (r = half /\ (sticky \/ q % 2 = 1)) THEN q + 1 ELSE q

\* s * a * 2^e for a > 0 of L bits, to Prec bits.
Normal[s \in Int, a \in Int, L \in Int, e \in Int, sticky \in BOOLEAN] ==
  IF L <= Prec THEN Pack[s, a * Pow2(Prec - L), e - (Prec - L)]
  ELSE Carry[s, Nearest[a \div Pow2(L - Prec), a % Pow2(L - Prec),
                        Pow2(L - Prec - 1), sticky], e + (L - Prec)]

\* n * 2^e rounded to Prec bits; sticky says the exact value lies strictly
\* above |n| * 2^e in magnitude (bits already dropped by the caller).
Round[n \in Int, e \in Int, sticky \in BOOLEAN] ==
  IF n = 0 THEN Zero ELSE Normal[Sgn(n), Abs(n), BitLen(Abs(n)), e, sticky]

\* The float nearest to the integer n.
FromInt[n \in Int] == Round[n, 0, FALSE]

FNeg[a \in Flt] ==
  IF a.k = "exc" \/ a.k = "nan" THEN a
  ELSE [k |-> a.k, m |-> -a.m, e |-> a.e]

FAbs[a \in Flt] ==
  IF a.k \in {"fin", "zero", "inf"} /\ a.m < 0 THEN FNeg[a] ELSE a

FMul[a \in Flt, b \in Flt] ==
  IF IsExc(a) THEN a ELSE IF IsExc(b) THEN b
  ELSE IF IsNaN(a) \/ IsNaN(b) THEN NaN
  ELSE IF IsInf(a) \/ IsInf(b)
       THEN IF IsZero(a) \/ IsZero(b) THEN NaN ELSE Inf(Sgn(a.m) * Sgn(b.m))
  ELSE IF IsZero(a) \/ IsZero(b) THEN ZeroS(Sgn(a.m) * Sgn(b.m))
  ELSE Round[a.m * b.m, a.e + b.e, FALSE]

\* The exact sum of two finite non-zero values, on the exponent e of the
\* smaller one.
Aligned[a \in Flt, b \in Flt, e \in Int] ==
  Round[a.m * Pow2(a.e - e) + b.m * Pow2(b.e - e), e, FALSE]

FAdd[a \in Flt, b \in Flt] ==
  IF IsExc(a) THEN a ELSE IF IsExc(b) THEN b
  ELSE IF IsNaN(a) \/ IsNaN(b) THEN NaN
  ELSE IF IsInf(a) THEN (IF IsInf(b) /\ a.m # b.m THEN NaN ELSE a)
  ELSE IF IsInf(b) THEN b
  ELSE IF IsZero(a) THEN (IF IsZero(b) /\ a.m # b.m THEN Zero ELSE b)
  ELSE IF IsZero(b) THEN a
  ELSE IF a.e - b.e > Prec + 2 THEN a
  ELSE IF b.e - a.e > Prec + 2 THEN b
  ELSE Aligned[a, b, IF a.e < b.e THEN a.e ELSE b.e]

FSub[a \in Flt, b \in Flt] == FAdd[a, FNeg[b]]

\* The quotient n / d of two positive integers with the sign s, times 2^e.
Quotient[s \in Int, n \in Int, d \in Int, e \in Int] ==
  Round[s * (n \div d), e, n % d # 0]

\* Python's float division: a zero divisor raises ZeroDivisionError.
FDiv[a \in Flt, b \in Flt] ==
  IF IsExc(a) THEN a ELSE IF IsExc(b) THEN b
  ELSE IF IsZero(b) THEN ZeroDivisionError
  ELSE IF IsNaN(a) \/ IsNaN(b) THEN NaN
  ELSE IF IsInf(a) THEN (IF IsInf(b) THEN NaN ELSE Inf(a.m * Sgn(b.m)))
  ELSE IF IsInf(b) \/ IsZero(a) THEN ZeroS(Sgn(a.m) * Sgn(b.m))
  ELSE Quotient[Sgn(a.m) * Sgn(b.m), Abs(a.m) * Pow2(Prec + 2), Abs(b.m),
                a.e - b.e - (Prec + 2)]

\* The root r = floor(sqrt(n)) of n > 0, times 2^e.
Root[n \in Int, r \in Int, e \in Int] == Round[r, e, r * r # n]

\* The square root of a.m * 2^a.e, the exponent made even (odd is 0 or 1).
EvenRoot[a \in Flt, odd \in Int] ==
  Root[a.m * Pow2(Prec + 2 + odd), ISqrt(a.m * Pow2(Prec + 2 + odd)),
       (a.e - Prec - 2 - odd) \div 2]

\* math.sqrt: a negative argument raises ValueError.
FSqrt[a \in Flt] ==
  IF IsExc(a) \/ IsNaN(a) \/ IsZero(a) THEN a
  ELSE IF a.m < 0 THEN ValueError
  ELSE IF IsInf(a) THEN a
  ELSE EvenRoot[a, (a.e + Prec) % 2]

\* a < b and a <= b on finite values.
Negative[d \in Flt] == d.k = "fin" /\ d.m < 0
FLt[a \in Flt, b \in Flt] == IsFin(a) /\ IsFin(b) /\ Negative[FSub[a, b]]
NonPositive[d \in Flt] == IsZero(d) \/ Negative[d]
FLe[a \in Flt, b \in Flt] == IsFin(a) /\ IsFin(b) /\ NonPositive[FSub[a, b]]

\* floor(a) as an integer, for a finite a of magnitude below 2^30.
FFloor[a \in Flt] ==
  IF IsZero(a) THEN 0
  ELSE IF a.e >= 0 THEN a.m * Pow2(a.e)
  ELSE IF -a.e > 30 THEN (IF a.m < 0 THEN -1 ELSE 0)
  ELSE a.m \div Pow2(-a.e)

\* n / d as a float, for a decimal literal of the source.
Lit[n \in Int, d \in Int] == FDiv[FromInt[n], FromInt[d]]

One == FromInt[1]

(***************************************************************************)
(* The math module.  pi * 2^27 = 421657428.26..., so PiHalfFix is pi/2 in  *)
(* units of 2^-28; math.pi is pi rounded to a float.                       *)
(***************************************************************************)
PiHalfFix == 421657428
FixBits == 28

PI == Round[PiHalfFix, 1 - FixBits, FALSE]
PIO2 == Round[PiHalfFix, -FixBits, FALSE]
PIO4 == Round[PiHalfFix, -FixBits - 1, FALSE]

\* sin and cos on [-pi/4, pi/4], by their Taylor polynomials in s = r * r.
SinSeries[r \in Flt, s \in Flt] ==
  FMul[r, FSub[One, FMul[FDiv[s, FromInt[6]],
          FSub[One, FMul[FDiv[s, FromInt[20]],
             FSub[One, FDiv[s, FromInt[42]]]]]]]]
SinPoly[r \in Flt] == SinSeries[r, FMul[r, r]]

CosSeries[s \in Flt] ==
  FSub[One, FMul[FDiv[s, FromInt[2]],
     FSub[One, FMul[FDiv[s, FromInt[12]],
        FSub[One, FMul[FDiv[s, FromInt[30]],
           FSub[One, FDiv[s, FromInt[56]]]]]]]]]
CosPoly[r \in Flt] == CosSeries[FMul[r, r]]

\* x = k * pi/2 + r with |r| <= pi/4: <<k mod 4, r>>.  Below 4 in magnitude the
\* reduction is exact in units of 2^-28, so r is never 0; above, it is done
\* in floats.  x is finite and not zero.  From 2^Prec on, where every float
\* is an integer and its residue is below the precision, the residue is taken
\* as 0; no angle in radians of the conversions gets that far.
ReduceFix[X \in Int, k \in Int] ==
  <<k % 4, Round[X - k * PiHalfFix, -FixBits, FALSE]>>
ReduceFlt[x \in Flt, k \in Int] ==
  <<k % 4, FSub[x, FMul[FromInt[k], PIO2]]>>
Reduce[x \in Flt] ==
  IF x.e + Prec <= -1 THEN <<0, x>>
  ELSE IF x.e + Prec <= 2
  THEN ReduceFix[x.m * Pow2(x.e + FixBits),
                 (x.m * Pow2(x.e + FixBits) + PiHalfFix \div 2) \div PiHalfFix]
  ELSE IF x.e <= 0
  THEN ReduceFlt[x, FFloor[FAdd[FDiv[x, PIO2], Lit[1, 2]]]]
  ELSE <<0, Zero>>

Clamp1[a \in Flt] ==
  IF IsFin(a) /\ FLt[One, a] THEN One
  ELSE IF IsFin(a) /\ FLt[a, FNeg[One]] THEN FNeg[One]
  ELSE a

\* sin(k * pi/2 + r) from s = sin(r) and c = cos(r).
Quadrant[k \in Int, s \in Flt, c \in Flt] ==
  Clamp1[IF k % 4 = 0 THEN s
         ELSE IF k % 4 = 1 THEN c
         ELSE IF k % 4 = 2 THEN FNeg[s]
         ELSE FNeg[c]]
\* sin(x + q * pi/2) for x reduced to kr = <<k, r>>.
SinAt[kr \in Int \X Flt, q \in Int] ==
  Quadrant[kr[1] + q, SinPoly[kr[2]], CosPoly[kr[2]]]

\* math.sin and math.cos: an infinite argument raises ValueError ("math
\* domain error"), a NaN gives NaN.
FSin[x \in Flt] ==
  IF IsExc(x) \/ IsNaN(x) \/ IsZero(x) THEN x
  ELSE IF IsInf(x) THEN ValueError
  ELSE SinAt[Reduce[x], 0]

FCos[x \in Flt] ==
  IF IsExc(x) \/ IsNaN(x) THEN x
  ELSE IF IsZero(x) THEN One
  ELSE IF IsInf(x) THEN ValueError
  ELSE SinAt[Reduce[x], 1]

\* atan on [-0.43, 0.43], by its Taylor polynomial in s = u * u.
AtanSeries[u \in Flt, s \in Flt] ==
  FMul[u, FSub[One, FMul[s,
          FSub[Lit[1, 3], FMul[s,
             FSub[Lit[1, 5], FMul[s,
                FSub[Lit[1, 7], FMul[s,
                   FSub[Lit[1, 9], FDiv[s, FromInt[11]]]]]]]]]]]]
AtanPoly[u \in Flt] == AtanSeries[u, FMul[u, u]]

\* atan(t) for a finite 0 <= t <= 1.
Atan01[t \in Flt] ==
  IF FLt[Lit[2, 5], t]
  THEN FAdd[PIO4, AtanPoly[FDiv[FSub[t, One], FAdd[t, One]]]]
  ELSE AtanPoly[t]

\* The angle of (x, y), x and y finite and not zero, from a = atan2(|y|, |x|).
Mirror[y \in Flt, x \in Flt, a \in Flt] ==
  IF y.m < 0 THEN FNeg[IF x.m < 0 THEN FSub[PI, a] ELSE a]
  ELSE IF x.m < 0 THEN FSub[PI, a] ELSE a

\* atan2(ay, ax) for finite ay > 0 and ax > 0.
AtanAbs[ay \in Flt, ax \in Flt] ==
  IF FLe[ay, ax] THEN Atan01[FDiv[ay, ax]]
  ELSE FSub[PIO2, Atan01[FDiv[ax, ay]]]

\* math.atan2 (C99 F.9.1.4): never raises.  A zero or an infinity has its
\* sign in m.
FAtan2[y \in Flt, x \in Flt] ==
  IF IsExc(y) THEN y ELSE IF IsExc(x) THEN x
  ELSE IF IsNaN(y) \/ IsNaN(x) THEN NaN
  ELSE IF IsInf(y)
       THEN (IF IsInf(x)
             THEN (IF x.m > 0 THEN (IF y.m < 0 THEN FNeg[PIO4] ELSE PIO4)
                   ELSE IF y.m < 0 THEN FNeg[FSub[PI, PIO4]] ELSE FSub[PI, PIO4])
             ELSE IF y.m < 0 THEN FNeg[PIO2] ELSE PIO2)
  ELSE IF IsInf(x)
       THEN (IF x.m > 0 THEN ZeroS(y.m) ELSE IF y.m < 0 THEN FNeg[PI] ELSE PI)
  ELSE IF IsZero(y)
       THEN (IF x.m > 0 THEN y ELSE IF y.m < 0 THEN FNeg[PI] ELSE PI)
  ELSE IF IsZero(x) THEN (IF y.m > 0 THEN PIO2 ELSE FNeg[PIO2])
  ELSE Mirror[y, x, AtanAbs[FAbs[y], FAbs[x]]]

\* float ** 3 (C pow): OverflowError when a finite base overflows.
Overflowed[a \in Flt, c \in Flt] ==
  IF IsFin(a) /\ IsInf(c) THEN OverflowError ELSE c
FCube[a \in Flt] == Overflowed[a, FMul[FMul[a, a], a]]

VARIABLES
  globals,  \* the module's attributes F, A, A2, B, B2, E2, EP2
  pc,       \* per caller: "idle", "called" (arguments bound) or "returned"
  fn,       \* per caller: the conversion called
  args,     \* per caller: the positional arguments, a tuple of floats
  ref,      \* per caller: the llh_ref tuple passed, <<>> when there is none
  passed,   \* per caller: the caller's own copy of <<args, ref>> as passed
  result    \* per caller: the tuple returned, or <<exception>>

vars == <<globals, pc, fn, args, ref, passed, result>>

(***************************************************************************)
(* The module's constants (computed at import).  The literal               *)
(* 298.257223563 is written 298257224 / 10^6: both round to the same       *)
(* Prec-bit float.                                                         *)
(***************************************************************************)
Import ==
  LET F0 == FDiv[One, Lit[298257224, 1000000]]
      A0 == FromInt[6378137]
      A20 == FMul[A0, A0]
      B0 == FMul[A0, FSub[One, F0]]
      B20 == FMul[B0, B0]
  IN [F |-> F0, A |-> A0, A2 |-> A20, B |-> B0, B2 |-> B20,
      E2 |-> FDiv[FSub[A20, B20], A20], EP2 |-> FDiv[FSub[A20, B20], B20]]

F == globals.F
A == globals.A
A2 == globals.A2
B == globals.B
B2 == globals.B2
E2 == globals.E2
EP2 == globals.EP2

D180 == FromInt[180]

\* A call's outcome: the tuple returned, or <<exception>> when a statement
\* raised.
Raised(t) == \E i \in DOMAIN t : IsExc(t[i])
FirstExc(t) ==
  t[CHOOSE i \in DOMAIN t : IsExc(t[i]) /\ \A j \in DOMAIN t : IsExc(t[j]) => i <= j]
Outcome(t) == IF Raised(t) THEN <<FirstExc(t)>> ELSE t
Failed(t) == Len(t) = 1

\* Degrees to radians and back (lines 58-59, 94-95, 136-137, 162-163).
Radians(deg) == FMul[FDiv[deg, D180], PI]
Degrees(rad) == FMul[FDiv[rad, PI], D180]

\* A conversion binds its locals in the order of the source.  Where a local is
\* read more than once, the statements after its binding are an operator of
\* their own, named after the conversion and the first local they bind.

\* Lines 68-72: x, y, z.
llh_to_ecef_x(height, sin_lat, cos_lat, sin_lon, cos_lon, roc) ==
  <<FMul[FMul[FAdd[roc, height], cos_lat], cos_lon],
    FMul[FMul[FAdd[roc, height], cos_lat], sin_lon],
    FMul[FAdd[FMul[FDiv[B2, A2], roc], height], sin_lat]>>

\* Line 66: roc.
llh_to_ecef_roc(height, sin_lat, cos_lat, sin_lon, cos_lon) ==
  llh_to_ecef_x(height, sin_lat, cos_lat, sin_lon, cos_lon,
                FDiv[A2, FSqrt[FAdd[FMul[FMul[A2, cos_lat], cos_lat],
                                    FMul[FMul[B2, sin_lat], sin_lat]]]])

\* llh_to_ecef_sin_lat with an infinite angle answered by NaNs.
llh_to_ecef_sin_lat_guarded(lat, lon, height) ==
  IF IsInf(lat) \/ IsInf(lon) THEN <<NaN, NaN, NaN>>
  ELSE llh_to_ecef_roc(height, FSin[lat], FCos[lat], FSin[lon], FCos[lon])

\* Lines 61-64: the sines and cosines.
llh_to_ecef_sin_lat(lat, lon, height) ==
  llh_to_ecef_roc(height, FSin[lat], FCos[lat], FSin[lon], FCos[lon])

llh_to_ecef(latitude, longitude, height) ==
  Outcome(llh_to_ecef_sin_lat(Radians(latitude), Radians(longitude), height))

\* ecef_to_llh_roc with the radicand of line 90 negated.
ecef_to_llh_roc_negated(r, lon, lat, sin_lat) ==
  <<Degrees(lat), Degrees(lon),
    FSub[FDiv[r, FCos[lat]],
         FDiv[A, FSqrt[FSub[FMul[FMul[E2, sin_lat], sin_lat], One]]]]>>

\* Lines 90-97: roc, height, latitude, longitude.
ecef_to_llh_roc(r, lon, lat, sin_lat) ==
  <<Degrees(lat), Degrees(lon),
    FSub[FDiv[r, FCos[lat]],
         FDiv[A, FSqrt[FSub[One, FMul[FMul[E2, sin_lat], sin_lat]]]]]>>

\* Line 89: sin_lat.
ecef_to_llh_sin_lat(r, lon, lat) == ecef_to_llh_roc(r, lon, lat, FSin[lat])

\* ecef_to_llh_lat_y with lon = math.atan(y / x) for line 86.
ecef_to_llh_lat_y_atan(x, y, z, r, theta) ==
  ecef_to_llh_sin_lat(r, FAtan2[FDiv[y, x], One],
    FAtan2[FAdd[z, FMul[FMul[EP2, B], FCube[FSin[theta]]]],
           FSub[r, FMul[FMul[E2, A], FCube[FCos[theta]]]]])

\* Lines 83-87: lat_y, lat_x, lon, lat.
ecef_to_llh_lat_y(x, y, z, r, theta) ==
  ecef_to_llh_sin_lat(r, FAtan2[y, x],
    FAtan2[FAdd[z, FMul[FMul[EP2, B], FCube[FSin[theta]]]],
           FSub[r, FMul[FMul[E2, A], FCube[FCos[theta]]]]])

\* Line 81: theta.
ecef_to_llh_theta(x, y, z, r) ==
  ecef_to_llh_lat_y(x, y, z, r, FAtan2[FMul[A, z], FMul[B, r]])

\* Lines 78-79: r2 and r.
ecef_to_llh(x, y, z) ==
  Outcome(ecef_to_llh_theta(x, y, z, FSqrt[FAdd[FMul[x, x], FMul[y, y]]]))

\* ecef_to_enu_rotation_matrix_R with the sign of R[1, 0] and R[1, 1] lost.
ecef_to_enu_rotation_matrix_R_unsigned(sin_lat, cos_lat, sin_lon, cos_lon) ==
  IF Raised(<<sin_lat, cos_lat, sin_lon, cos_lon>>)
  THEN <<FirstExc(<<sin_lat, cos_lat, sin_lon, cos_lon>>)>>
  ELSE << <<FNeg[sin_lon], cos_lon, Zero>>,
          <<FMul[sin_lat, cos_lon], FMul[sin_lat, sin_lon], cos_lat>>,
          <<FMul[cos_lat, cos_lon], FMul[cos_lat, sin_lon], sin_lat>> >>

\* Lines 112-124: R.  A 3x3 matrix is a tuple of three rows; a raised
\* exception is <<exception>>.
ecef_to_enu_rotation_matrix_R(sin_lat, cos_lat, sin_lon, cos_lon) ==
  IF Raised(<<sin_lat, cos_lat, sin_lon, cos_lon>>)
  THEN <<FirstExc(<<sin_lat, cos_lat, sin_lon, cos_lon>>)>>
  ELSE << <<FNeg[sin_lon], cos_lon, Zero>>,
          <<FMul[FNeg[sin_lat], cos_lon], FMul[FNeg[sin_lat], sin_lon], cos_lat>>,
          <<FMul[cos_lat, cos_lon], FMul[cos_lat, sin_lon], sin_lat>> >>

ecef_to_enu_rotation_matrix(lat, lon) ==
  ecef_to_enu_rotation_matrix_R(FSin[lat], FCos[lat], FSin[lon], FCos[lon])

\* numpy: M.T, a - b and a + b on 3-vectors, np.matmul of a 3x3 matrix and a
\* 3-vector.  numpy's float arithmetic does not raise.
Transpose(M) == [i \in 1..3 |-> [j \in 1..3 |-> M[j][i]]]
VSub(a, b) == [i \in 1..3 |-> FSub[a[i], b[i]]]
VAdd(a, b) == [i \in 1..3 |-> FAdd[a[i], b[i]]]
MatVec(M, v) ==
  [i \in 1..3 |-> FAdd[FAdd[FMul[M[i][1], v[1]], FMul[M[i][2], v[2]]],
                       FMul[M[i][3], v[3]]]]

\* ecef_to_enu_p with p in place of p - p_ref on line 147.
ecef_to_enu_p_unshifted(p_ref, R, p) ==
  IF Failed(p_ref) THEN p_ref
  ELSE IF Failed(R) THEN R
  ELSE MatVec(R, p)

\* Lines 141-147: p, p_ref, enu.
ecef_to_enu_p(p_ref, R, p) ==
  IF Failed(p_ref) THEN p_ref
  ELSE IF Failed(R) THEN R
  ELSE MatVec(R, VSub(p, p_ref))

ecef_to_enu(x, y, z, llh_ref) ==
  ecef_to_enu_p(llh_to_ecef(llh_ref[1], llh_ref[2], llh_ref[3]),
                ecef_to_enu_rotation_matrix(Radians(llh_ref[1]),
                                            Radians(llh_ref[2])),
                <<x, y, z>>)

\* Lines 166-174: R is rebound to its transpose (line 166) and q is
\* np.matmul(R.T, p) + p_ref (line 174).
enu_to_ecef_R(p_ref, R, p) ==
  IF Failed(p_ref) THEN p_ref
  ELSE IF Failed(R) THEN R
  ELSE VAdd(MatVec(Transpose(Transpose(R)), p), p_ref)

enu_to_ecef(e, n, u, llh_ref) ==
  enu_to_ecef_R(llh_to_ecef(llh_ref[1], llh_ref[2], llh_ref[3]),
                ecef_to_enu_rotation_matrix(Radians(llh_ref[1]),
                                            Radians(llh_ref[2])),
                <<e, n, u>>)

\* Line 184: e, n, u from x, y, z.
llh_to_enu_e(xyz, llh_ref) ==
  IF Failed(xyz) THEN xyz ELSE ecef_to_enu(xyz[1], xyz[2], xyz[3], llh_ref)

llh_to_enu(latitude, longitude, height, llh_ref) ==
  llh_to_enu_e(llh_to_ecef(latitude, longitude, height), llh_ref)

\* Line 194: latitude, longitude, height from x, y, z.
enu_to_llh_latitude(xyz) ==
  IF Failed(xyz) THEN xyz ELSE ecef_to_llh(xyz[1], xyz[2], xyz[3])

enu_to_llh(e, n, u, llh_ref) == enu_to_llh_latitude(enu_to_ecef(e, n, u, llh_ref))

\* llh_to_ned_return with e and n in the order of ENU.
llh_to_ned_return_unswapped(enu) ==
  IF Failed(enu) THEN enu ELSE <<enu[1], enu[2], FNeg[enu[3]]>>

\* Line 205: n, e, -u.
llh_to_ned_return(enu) ==
  IF Failed(enu) THEN enu ELSE <<enu[2], enu[1], FNeg[enu[3]]>>

llh_to_ned(latitude, longitude, height, llh_ref) ==
  llh_to_ned_return(llh_to_enu(latitude, longitude, height, llh_ref))

ned_to_llh(n, e, d, llh_ref) == enu_to_llh(e, n, FNeg[d], llh_ref)

\* Line 221: e, -n, -u.
llh_to_esd_return(enu) ==
  IF Failed(enu) THEN enu ELSE <<enu[1], FNeg[enu[2]], FNeg[enu[3]]>>

llh_to_esd(latitude, longitude, height, llh_ref) ==
  llh_to_esd_return(llh_to_enu(latitude, longitude, height, llh_ref))

esd_to_llh(e, s, d, llh_ref) == enu_to_llh(e, FNeg[s], FNeg[d], llh_ref)

(***************************************************************************)
(* The callers.  Each caller binds the arguments of one conversion, the    *)
(* conversion runs on them, and the caller takes the result.  The          *)
(* arguments are drawn from the sets below.                                *)
(***************************************************************************)
Callers == {1, 2}

V3(a, b, c) == <<FromInt[a], FromInt[b], FromInt[c]>>
NonFinite == {NaN, PInf, NInf}
\* t with one component replaced by a NaN or an infinity.
Spoiled(t) == {[t EXCEPT ![i] = v] : i \in DOMAIN t, v \in NonFinite}

\* Geodetic points (degrees, degrees, metres) and reference points.
Refs == {V3(0, 0, 0), V3(12, 23, 56), V3(-89, 179, -10000), V3(45, 90, 90000)}
GeoPts == Refs \cup {V3(30, -60, 0), V3(89, -180, 10000), V3(90, 0, 0),
                     V3(-90, 45, 1000)}
\* ECEF points (metres): off the polar axis, on it (x and y each +0.0 or
\* -0.0), and beyond the range in which a square is finite or non-zero.
OffAxis == {V3(6378137, 0, 0), V3(4000000, 3000000, 3500000),
            V3(-2000000, 5000000, -3000000), V3(1, 0, 6356752),
            V3(42000, 0, 1), V3(0, -7000000, 0),
            <<Round[1, 600, FALSE], Zero, Zero>>,
            <<Round[1, -600, FALSE], Zero, One>>}
OnAxis == {V3(0, 0, 6356752), V3(0, 0, -1000), V3(0, 0, 0), V3(0, 0, 5),
           <<Zero, Zero, Round[-1, 600, FALSE]>>,
           <<NegZero, Zero, FromInt[5]>>, <<NegZero, NegZero, FromInt[5]>>,
           <<Zero, NegZero, FromInt[-1000]>>}
EcefPts == OffAxis \cup OnAxis
\* Local offsets (metres).
EnuPts == {V3(0, 0, 0), V3(100, 0, 0), V3(0, 200, 0), V3(0, 0, 300),
           V3(-1000, 2000, 500), V3(300000, -200000, 100000)}
\* Latitude and longitude in radians.
RadPairs == {<<Zero, Zero>>, <<PIO4, PIO2>>, <<FNeg[PIO2], PI>>,
             <<Lit[1, 2], FromInt[-2]>>, <<One, FromInt[3]>>,
             <<Lit[-6, 5], Lit[1, 10]>>}

G0 == V3(12, 23, 56)
P0 == V3(4000000, 3000000, 3500000)
L0 == V3(-1000, 2000, 500)

NoRef == {<<>>}
WithRef == {"ecef_to_enu", "enu_to_ecef", "llh_to_enu", "enu_to_llh",
            "llh_to_ned", "ned_to_llh", "llh_to_esd", "esd_to_llh"}
FromLlh == {"llh_to_ecef", "llh_to_enu", "llh_to_ned", "llh_to_esd"}
FromLocal == {"enu_to_ecef", "enu_to_llh", "ned_to_llh", "esd_to_llh"}
Functions == WithRef \cup {"llh_to_ecef", "ecef_to_llh", "ecef_to_enu_rotation_matrix"}

\* The finite arguments of f, and f's base point.
Points(f) ==
  IF f \in FromLlh THEN GeoPts
  ELSE IF f \in FromLocal THEN EnuPts
  ELSE IF f = "ecef_to_enu_rotation_matrix" THEN RadPairs
  ELSE EcefPts
Base(f) ==
  IF f \in FromLlh THEN G0
  ELSE IF f \in FromLocal THEN L0
  ELSE IF f = "ecef_to_enu_rotation_matrix" THEN <<Lit[1, 2], FromInt[-2]>>
  ELSE P0

\* The calls made: every finite point (with every reference point), and the
\* base call with one argument, or one component of llh_ref, not finite.
Calls(f) ==
  IF f \in WithRef
  THEN (Points(f) \X Refs) \cup (Spoiled(Base(f)) \X {G0})
       \cup ({Base(f)} \X Spoiled(G0))
  ELSE (Points(f) \cup Spoiled(Base(f))) \X NoRef

\* The calls of two concurrent callers.
SmallCalls(f) ==
  IF f \in WithRef THEN {<<Base(f), G0>>, <<Base(f), V3(45, 90, 90000)>>}
  ELSE {<<Base(f), <<>> >>}

Apply(f, a, r) ==
  CASE f = "llh_to_ecef" -> llh_to_ecef(a[1], a[2], a[3])
    [] f = "ecef_to_llh" -> ecef_to_llh(a[1], a[2], a[3])
    [] f = "ecef_to_enu_rotation_matrix" -> ecef_to_enu_rotation_matrix(a[1], a[2])
    [] f = "ecef_to_enu" -> ecef_to_enu(a[1], a[2], a[3], r)
    [] f = "enu_to_ecef" -> enu_to_ecef(a[1], a[2], a[3], r)
    [] f = "llh_to_enu" -> llh_to_enu(a[1], a[2], a[3], r)
    [] f = "enu_to_llh" -> enu_to_llh(a[1], a[2], a[3], r)
    [] f = "llh_to_ned" -> llh_to_ned(a[1], a[2], a[3], r)
    [] f = "ned_to_llh" -> ned_to_llh(a[1], a[2], a[3], r)
    [] f = "llh_to_esd" -> llh_to_esd(a[1], a[2], a[3], r)
    [] f = "esd_to_llh" -> esd_to_llh(a[1], a[2], a[3], r)

Init ==
  /\ globals = Import
  /\ pc = [c \in Callers |-> "idle"]
  /\ fn = [c \in Callers |-> "none"]
  /\ args = [c \in Callers |-> <<>>]
  /\ ref = [c \in Callers |-> <<>>]
  /\ passed = [c \in Callers |-> <<>>]
  /\ result = [c \in Callers |-> <<>>]

\* Caller c calls f(*a) or f(*a, r).
Call(c, f, a, r) ==
  /\ pc[c] = "idle"
  /\ pc' = [pc EXCEPT ![c] = "called"]
  /\ fn' = [fn EXCEPT ![c] = f]
  /\ args' = [args EXCEPT ![c] = a]
  /\ ref' = [ref EXCEPT ![c] = r]
  /\ passed' = [passed EXCEPT ![c] = <<a, r>>]
  /\ result' = [result EXCEPT ![c] = <<>>]
  /\ UNCHANGED globals

\* Run with the result also written into the caller's argument tuple.
Run_in_place(c, f, out) ==
  /\ pc[c] = "called"
  /\ fn[c] = f
  /\ result' = [result EXCEPT ![c] = out]
  /\ args' = [args EXCEPT ![c] = out]
  /\ pc' = [pc EXCEPT ![c] = "returned"]
  /\ UNCHANGED <<globals, fn, ref, passed>>

\* The body of f runs in c's frame: it reads its arguments and the module's
\* constants, binds only locals and returns out.
Run(c, f, out) ==
  /\ pc[c] = "called"
  /\ fn[c] = f
  /\ result' = [result EXCEPT ![c] = out]
  /\ pc' = [pc EXCEPT ![c] = "returned"]
  /\ UNCHANGED <<globals, fn, args, ref, passed>>

Do_llh_to_ecef(c) ==
  Run(c, "llh_to_ecef", llh_to_ecef(args[c][1], args[c][2], args[c][3]))
Do_ecef_to_llh(c) ==
  Run(c, "ecef_to_llh", ecef_to_llh(args[c][1], args[c][2], args[c][3]))
Do_ecef_to_enu_rotation_matrix(c) ==
  Run(c, "ecef_to_enu_rotation_matrix",
      ecef_to_enu_rotation_matrix(args[c][1], args[c][2]))
Do_ecef_to_enu(c) ==
  Run(c, "ecef_to_enu", ecef_to_enu(args[c][1], args[c][2], args[c][3], ref[c]))
Do_enu_to_ecef(c) ==
  Run(c, "enu_to_ecef", enu_to_ecef(args[c][1], args[c][2], args[c][3], ref[c]))
Do_llh_to_enu(c) ==
  Run(c, "llh_to_enu", llh_to_enu(args[c][1], args[c][2], args[c][3], ref[c]))
Do_enu_to_llh(c) ==
  Run(c, "enu_to_llh", enu_to_llh(args[c][1], args[c][2], args[c][3], ref[c]))
Do_llh_to_ned(c) ==
  Run(c, "llh_to_ned", llh_to_ned(args[c][1], args[c][2], args[c][3], ref[c]))
Do_ned_to_llh(c) ==
  Run(c, "ned_to_llh", ned_to_llh(args[c][1], args[c][2], args[c][3], ref[c]))
Do_llh_to_esd(c) ==
  Run(c, "llh_to_esd", llh_to_esd(args[c][1], args[c][2], args[c][3], ref[c]))
Do_esd_to_llh(c) ==
  Run(c, "esd_to_llh", esd_to_llh(args[c][1], args[c][2], args[c][3], ref[c]))

\* The caller takes the result; its frame is gone.
Return(c) ==
  /\ pc[c] = "returned"
  /\ pc' = [pc EXCEPT ![c] = "idle"]
  /\ fn' = [fn EXCEPT ![c] = "none"]
  /\ args' = [args EXCEPT ![c] = <<>>]
  /\ ref' = [ref EXCEPT ![c] = <<>>]
  /\ passed' = [passed EXCEPT ![c] = <<>>]
  /\ result' = [result EXCEPT ![c] = <<>>]
  /\ UNCHANGED globals

Body(c) ==
  \/ Do_llh_to_ecef(c)
  \/ Do_ecef_to_llh(c)
  \/ Do_ecef_to_enu_rotation_matrix(c)
  \/ Do_ecef_to_enu(c)
  \/ Do_enu_to_ecef(c)
  \/ Do_llh_to_enu(c)
  \/ Do_enu_to_llh(c)
  \/ Do_llh_to_ned(c)
  \/ Do_ned_to_llh(c)
  \/ Do_llh_to_esd(c)
  \/ Do_esd_to_llh(c)

\* One caller, every call.
Next ==
  \/ \E f \in Functions : \E ar \in Calls(f) : Call(1, f, ar[1], ar[2])
  \/ Body(1)
  \/ Return(1)

Spec == Init /\ [][Next]_vars

\* Two callers interleaved.
NextConc ==
  \E c \in Callers :
    \/ \E f \in Functions : \E ar \in SmallCalls(f) : Call(c, f, ar[1], ar[2])
    \/ Body(c)
    \/ Return(c)

SpecConc == Init /\ [][NextConc]_vars

(***************************************************************************)
(* Properties.  A property speaks of the calls that have returned: the     *)
(* caller c holds the arguments in args[c] and ref[c] and the outcome in   *)
(* result[c].                                                              *)
(***************************************************************************)
Returned(c, f) == pc[c] = "returned" /\ fn[c] = f
Finite(t) == \A i \in DOMAIN t : IsFin(t[i])
NonFiniteIn(t) == \E i \in DOMAIN t : IsNaN(t[i]) \/ IsInf(t[i])
NaNIn(t) == \E i \in DOMAIN t : IsNaN(t[i])
\* |a - b| <= tol.
Close(a, b, tol) == FLe[FAbs[FSub[a, b]], tol]
\* Coordinates (metres) whose squares and differences are far from overflow.
Terrestrial(t) == \A i \in DOMAIN t : FLe[FAbs[t[i]], Round[1, 24, FALSE]]

\* Rounding of a round trip through ENU on coordinates below 2^24 m: 2^27 ulp.
RoundTripTol == Round[1, 27 - Prec, FALSE]

\* C1: for every reference point and every ECEF point (x, y, z),
\* enu_to_ecef(*ecef_to_enu(x, y, z, llh_ref), llh_ref) is (x, y, z) again, up
\* to floating-point rounding.
C1_RoundTrip ==
  \A c \in Callers :
    Returned(c, "ecef_to_enu") /\ Terrestrial(args[c]) /\ Finite(ref[c])
    => /\ ~Failed(result[c])
       /\ \A i \in 1..3 :
            Close(enu_to_ecef(result[c][1], result[c][2], result[c][3], ref[c])[i],
                  args[c][i], RoundTripTol)

\* C2: enu_to_ecef(e, n, u, llh_ref) returns R^T * (e, n, u)^T + p_ref, with R
\* the matrix of ecef_to_enu_rotation_matrix at the reference's latitude and
\* longitude in radians and p_ref = llh_to_ecef(*llh_ref).
C2_TransposeApplied ==
  \A c \in Callers :
    Returned(c, "enu_to_ecef") /\ Finite(args[c]) /\ Finite(ref[c])
    => result[c] =
         VAdd(MatVec(Transpose(ecef_to_enu_rotation_matrix(Radians(ref[c][1]),
                                                           Radians(ref[c][2]))),
                     args[c]),
              llh_to_ecef(ref[c][1], ref[c][2], ref[c][3]))

\* C4: with (e, n, u) = llh_to_enu(*p, llh_ref), llh_to_ned(*p, llh_ref) is
\* exactly (n, e, -u) and llh_to_esd(*p, llh_ref) is exactly (e, -n, -u); a call
\* that raises in llh_to_enu raises the same.
C4_Permutation ==
  \A c \in Callers :
    LET enu == llh_to_enu(args[c][1], args[c][2], args[c][3], ref[c])
    IN /\ Returned(c, "llh_to_ned")
          => result[c] = IF Failed(enu) THEN enu
                         ELSE <<enu[2], enu[1], FNeg[enu[3]]>>
       /\ Returned(c, "llh_to_esd")
          => result[c] = IF Failed(enu) THEN enu
                         ELSE <<enu[1], FNeg[enu[2]], FNeg[enu[3]]>>

\* A returned llh_to_ned whose north, east and down are finite, not zero and
\* north differs from east.
C4_Witness ==
  \E c \in Callers :
    /\ Returned(c, "llh_to_ned")
    /\ ~Failed(result[c])
    /\ \A i \in 1..3 : result[c][i].k = "fin"
    /\ result[c][1] # result[c][2]

\* The dot product of two rows, as np.matmul adds it up.
Dot(a, b) == FAdd[FAdd[FMul[a[1], b[1]], FMul[a[2], b[2]]], FMul[a[3], b[3]]]

\* Rounding of a product of two rows of sines and cosines: 8 ulp of 1.
OrthoTol == Round[1, 3 - Prec, FALSE]

\* C5: for every finite lat and lon (radians) the matrix R of
\* ecef_to_enu_rotation_matrix(lat, lon) is orthonormal: R * R^T is the 3x3
\* identity up to floating-point rounding.
C5_Orthonormal ==
  \A c \in Callers :
    Returned(c, "ecef_to_enu_rotation_matrix") /\ Finite(args[c])
    => /\ ~Failed(result[c])
       /\ \A i \in 1..3 : \A j \in 1..3 :
            Close(Dot(result[c][i], result[c][j]),
                  IF i = j THEN One ELSE Zero, OrthoTol)

\* A returned rotation matrix none of whose sines and cosines is zero.
C5_Witness ==
  \E c \in Callers :
    /\ Returned(c, "ecef_to_enu_rotation_matrix")
    /\ Finite(args[c])
    /\ ~Failed(result[c])
    /\ \A i \in 2..3 : \A j \in 1..3 : result[c][i][j].k = "fin"
    /\ result[c][1][1].k = "fin" /\ result[c][1][2].k = "fin"

\* C6: for every (finite) reference point llh_ref = (latitude, longitude,
\* height), llh_to_enu(latitude, longitude, height, llh_ref) returns (0, 0, 0).
C6_ReferenceAtSelf ==
  \A c \in Callers :
    Returned(c, "llh_to_enu") /\ args[c] = ref[c] /\ Finite(ref[c])
    => ~Failed(result[c]) /\ \A i \in 1..3 : IsZero(result[c][i])

\* A returned llh_to_enu of a reference point away from latitude 0, longitude
\* 0 and height 0 in its own frame.
C6_Witness ==
  \E c \in Callers :
    /\ Returned(c, "llh_to_enu")
    /\ args[c] = ref[c]
    /\ \A i \in 1..3 : ref[c][i].k = "fin"

\* The conversions (ecef_to_enu_rotation_matrix is not one), and the
\* latitudes and longitudes among a call's arguments.
Conversions == Functions \ {"ecef_to_enu_rotation_matrix"}
Angles(f, a, r) ==
  (IF f \in FromLlh THEN {a[1], a[2]} ELSE {})
  \cup (IF f \in WithRef THEN {r[1], r[2]} ELSE {})

\* C7 as stated: when an argument of a conversion is NaN, +Infinity or
\* -Infinity the call does not raise, and a NaN or an infinity is among the
\* returned components.
C7_Propagates ==
  \A c \in Callers :
    pc[c] = "returned" /\ fn[c] \in Conversions
    /\ (NonFiniteIn(args[c]) \/ NonFiniteIn(ref[c]))
    => ~Failed(result[c]) /\ NonFiniteIn(result[c])

\* C7 as amended: when a latitude or a longitude among the arguments (of the
\* point or of llh_ref) is +Infinity or -Infinity the call raises ValueError;
\* otherwise a call with a NaN or an infinite argument does not raise, and
\* with a NaN argument a NaN is among the returned components.
C7_NonFinite ==
  \A c \in Callers :
    pc[c] = "returned" /\ fn[c] \in Conversions
    /\ (NonFiniteIn(args[c]) \/ NonFiniteIn(ref[c]))
    => IF \E v \in Angles(fn[c], args[c], ref[c]) : IsInf(v)
       THEN result[c] = <<ValueError>>
       ELSE /\ ~Failed(result[c])
            /\ (NaNIn(args[c]) \/ NaNIn(ref[c]) => NaNIn(result[c]))

\* A returned conversion with an infinite latitude or longitude in llh_ref
\* that raised ValueError.
C7_Witness ==
  \E c \in Callers :
    /\ pc[c] = "returned" /\ fn[c] \in WithRef
    /\ Finite(args[c])
    /\ IsInf(ref[c][1]) \/ IsInf(ref[c][2])
    /\ result[c] = <<ValueError>>

\* C8: for every finite input that is not on the polar axis (x = 0 and y = 0
\* together) no conversion raises: no divisor is zero and no square-root
\* argument is negative.
C8_Total ==
  \A c \in Callers :
    pc[c] = "returned" /\ Finite(args[c]) /\ Finite(ref[c])
    /\ ~(fn[c] = "ecef_to_llh" /\ IsZero(args[c][1]) /\ IsZero(args[c][2]))
    => ~Failed(result[c])

\* A returned ecef_to_llh of a finite point off the polar axis, with a finite
\* latitude, longitude and height.
C8_Witness ==
  \E c \in Callers :
    /\ Returned(c, "ecef_to_llh")
    /\ Finite(args[c])
    /\ ~IsZero(args[c][1]) /\ ~IsZero(args[c][2])
    /\ ~Failed(result[c]) /\ Finite(result[c])

\* C9 as stated: for every finite z, ecef_to_llh(x, y, z) with x = 0 and y = 0
\* returns without raising and its longitude is 0.
C9_LongitudeZero ==
  \A c \in Callers :
    Returned(c, "ecef_to_llh") /\ IsZero(args[c][1]) /\ IsZero(args[c][2])
    /\ IsFin(args[c][3])
    => ~Failed(result[c]) /\ IsZero(result[c][2])

\* C9 as amended: for every finite z, ecef_to_llh(x, y, z) with x = 0 and y = 0
\* returns without raising, and its longitude is y (0.0 or -0.0) when x is
\* +0.0, 180 when x is -0.0 and y is +0.0, and -180 when both are -0.0.
C9_LongitudeBySign ==
  \A c \in Callers :
    Returned(c, "ecef_to_llh") /\ IsZero(args[c][1]) /\ IsZero(args[c][2])
    /\ IsFin(args[c][3])
    => /\ ~Failed(result[c])
       /\ result[c][2] = IF args[c][1] = Zero THEN args[c][2]
                         ELSE IF args[c][2] = Zero THEN D180
                         ELSE FNeg[D180]

\* A returned ecef_to_llh(-0.0, 0.0, z), z finite and not zero, with the
\* longitude 180.
C9_Witness ==
  \E c \in Callers :
    /\ Returned(c, "ecef_to_llh")
    /\ args[c][1] = NegZero /\ args[c][2] = Zero /\ args[c][3].k = "fin"
    /\ ~Failed(result[c])
    /\ result[c][2] = D180

\* C10: under any interleaving of calls from independent callers the module
\* constants hold the values computed at import, no call modifies its
\* arguments or llh_ref, and a call's result is that of the same call run
\* alone on the arguments passed.
C10_Pure ==
  /\ globals = Import
  /\ \A c \in Callers :
       /\ pc[c] # "idle" => args[c] = passed[c][1] /\ ref[c] = passed[c][2]
       /\ pc[c] = "returned" => result[c] = Apply(fn[c], passed[c][1], passed[c][2])

\* One caller has its result while the other, in another conversion, has
\* bound its arguments and not yet run.
C10_Witness ==
  /\ pc[1] = "returned" /\ pc[2] = "called"
  /\ fn[1] # fn[2]
  /\ ~Failed(result[1])


=============================================================================
